---- MODULE Spec2Model ----
(***************************************************************************)
(* Model of the SOCKS5 wire decoders of asocks5/src/socks.rs:              *)
(*   read_socks_address, read_socks_socket_addr, read_handshake_request.   *)
(* A TcpStream is the sequence of bytes the peer sends before it closes    *)
(* its side, the number of bytes that have arrived so far, and the read    *)
(* position.  Every `.await` of the source is one step of the model.       *)
(***************************************************************************)
EXTENDS Integers, Sequences, FiniteSets, TLC

VARIABLES
    stream,       \* the bytes the peer sends on this connection, then EOF
    arrived,      \* how many of them have reached the socket so far
    closed,       \* the peer has closed after sending all of `stream`
    pos,          \* bytes consumed from the stream by read_exact
    wr_shutdown,  \* the write half of the stream has been shut down
    decoder,      \* the function being (or last) called
    pc,           \* the await point the call is suspended at
    ver, nmet,    \* locals of read_handshake_request
    length,       \* local of read_socks_address (domain branch)
    v6addr,       \* local of both address decoders (IPv6 branch)
    result,       \* what the call returned
    start,        \* pos when the call was made
    wr_at_call,   \* wr_shutdown when the call was made
    reads,        \* read_exact calls completed (Ok or Err) by the call
    shutdowns,    \* shutdown calls completed (Ok or Err) by the call
    last_io,      \* outcome of the call's last stream operation
    calls,        \* decoder calls made on the stream so far
    other         \* a second task with a stream of its own, while not running

vars == <<stream, arrived, closed, pos, wr_shutdown, decoder, pc, ver, nmet,
          length, v6addr, result, start, wr_at_call, reads, shutdowns, last_io,
          calls, other>>

----------------------------------------------------------------------------
(* Bounds of the explored inputs *)

MaxMethods == 3
MaxNameLen == 2
MaxTail == 1
MaxCalls == 2

Min(x, y) == IF x < y THEN x ELSE y

Repeat(b, n) == [i \in 1..n |-> b]

SeqsUpTo(S, n) == UNION {[1..k -> S] : k \in 0..n}

Prefixes(S) == UNION {{SubSeq(s, 1, k) : k \in 0..Len(s)} : s \in S}

----------------------------------------------------------------------------
(* consts.rs is not part of the sources at hand; these follow spec.md 4.1/6 *)

SOCKS5_VERSION == 5

AddrTypeIPV4 == 1
AddrTypeDomainName == 3
AddrTypeIPV6 == 4

\* impl TryFrom<u8> for consts::AddrType, with its error converted by `?`
AddrTypeTryFrom(a) ==
    IF a = AddrTypeIPV4 THEN [ok |-> TRUE, t |-> "IPV4"]
    ELSE IF a = AddrTypeDomainName THEN [ok |-> TRUE, t |-> "DomainName"]
    ELSE IF a = AddrTypeIPV6 THEN [ok |-> TRUE, t |-> "IPV6"]
    ELSE [ok |-> FALSE, err |-> [kind |-> "AddressTypeNotSupported", code |-> a]]

\* `t as u8` for a consts::AddrType
AddrTypeAsU8(t) ==
    IF t = "IPV4" THEN AddrTypeIPV4
    ELSE IF t = "DomainName" THEN AddrTypeDomainName
    ELSE AddrTypeIPV6

----------------------------------------------------------------------------
(* Values *)

NoResult == [kind |-> "None"]

Ok(v) == [kind |-> "Ok", val |-> v]

\* impl From<io::Error> for SocksError
FromIoError(err) == [kind |-> "IOError", err |-> err]

SocksVersionNoSupport(v) == [kind |-> "SocksVersionNoSupport", ver |-> v]

AddressTypeNotSupported(c) == [kind |-> "AddressTypeNotSupported", code |-> c]

\* SocketAddr::V4(SocketAddrV4::new(ip, port))
SocketAddrV4(ip, port) == [fam |-> "V4", ip |-> ip, port |-> port]

\* SocketAddr::V6(SocketAddrV6::new(ip, port, flowinfo, scope_id))
SocketAddrV6(ip, port, flowinfo, scope_id) ==
    [fam |-> "V6", ip |-> ip, port |-> port,
     flowinfo |-> flowinfo, scope_id |-> scope_id]

SocketAddress(sa) == [type |-> "SocketAddress", addr |-> sa]

\* the String is held as its UTF-8 bytes
DomainNameAddress(name, port) ==
    [type |-> "DomainNameAddress", name |-> name, port |-> port]

HandshakeRequest(methods) == [methods |-> methods]

\* Variant of Address::len that counts 8 bytes for an IPv6 address.
AddressLen_V6Short(addr) ==
    IF addr.type = "SocketAddress"
    THEN IF addr.addr.fam = "V4" THEN 1 + 4 + 2 ELSE 1 + 8 + 2
    ELSE 1 + 1 + Len(addr.name) + 2

\* Address::len
AddressLen(addr) ==
    IF addr.type = "SocketAddress"
    THEN IF addr.addr.fam = "V4" THEN 1 + 4 + 2 ELSE 1 + 8 * 2 + 2
    ELSE 1 + 1 + Len(addr.name) + 2

----------------------------------------------------------------------------
(* io::Cursor over an in-memory buffer, and the big-endian readers *)

Cursor(buf) == [buf |-> buf, cpos |-> 0]

\* Variant of read_u16be that reads least significant byte first.
read_u16be_LittleEndian(c) ==
    IF Len(c.buf) - c.cpos >= 2
    THEN [ok |-> TRUE,
          val |-> c.buf[c.cpos + 1] + c.buf[c.cpos + 2] * 256,
          cur |-> [c EXCEPT !.cpos = c.cpos + 2]]
    ELSE [ok |-> FALSE, err |-> "UnexpectedEof"]

\* CursorRead::read_u16be: two bytes at the cursor, most significant first
read_u16be(c) ==
    IF Len(c.buf) - c.cpos >= 2
    THEN [ok |-> TRUE,
          val |-> c.buf[c.cpos + 1] * 256 + c.buf[c.cpos + 2],
          cur |-> [c EXCEPT !.cpos = c.cpos + 2]]
    ELSE [ok |-> FALSE, err |-> "UnexpectedEof"]

\* CursorRead::read_u32be and AsyncReadExt::read_u32 on a Cursor: four bytes
\* at the cursor, most significant first.  The u32 is kept as its two 16-bit
\* halves, value = hi * 65536 + lo.
read_u32be(c) ==
    IF Len(c.buf) - c.cpos >= 4
    THEN [ok |-> TRUE,
          val |-> [hi |-> c.buf[c.cpos + 1] * 256 + c.buf[c.cpos + 2],
                   lo |-> c.buf[c.cpos + 3] * 256 + c.buf[c.cpos + 4]],
          cur |-> [c EXCEPT !.cpos = c.cpos + 4]]
    ELSE [ok |-> FALSE, err |-> "UnexpectedEof"]

\* Ipv4Addr::from(u32): the four octets, most significant first
Ipv4AddrFromU32(v) ==
    << v.hi \div 256, v.hi % 256, v.lo \div 256, v.lo % 256 >>

\* Ipv6Addr::from([u8; 16])
Ipv6AddrFromOctets(buf) == buf

----------------------------------------------------------------------------
(* String::from_utf8_lossy: every maximal invalid sequence of the input    *)
(* becomes U+FFFD, whose UTF-8 encoding is three bytes.                    *)

REPLACEMENT == <<239, 191, 189>>

IsCont(b) == b \in 128..191

\* byte at index i (1-based), 0 past the end
SafeGet(v, i) == IF i <= Len(v) THEN v[i] ELSE 0

Utf8CharWidth(b) ==
    IF b < 128 THEN 1
    ELSE IF b \in 194..223 THEN 2
    ELSE IF b \in 224..239 THEN 3
    ELSE IF b \in 240..244 THEN 4
    ELSE 0

SecondOk3(b0, b1) ==
    \/ b0 = 224 /\ b1 \in 160..191
    \/ b0 \in 225..236 /\ IsCont(b1)
    \/ b0 = 237 /\ b1 \in 128..159
    \/ b0 \in 238..239 /\ IsCont(b1)

SecondOk4(b0, b1) ==
    \/ b0 = 240 /\ b1 \in 144..191
    \/ b0 \in 241..243 /\ IsCont(b1)
    \/ b0 = 244 /\ b1 \in 128..143

\* the next chunk at index i: a valid character of `len` bytes, or an
\* invalid sequence of `len` bytes
Utf8Next(v, i) ==
    LET b0 == v[i]
        w  == Utf8CharWidth(b0)
        b1 == SafeGet(v, i + 1)
        b2 == SafeGet(v, i + 2)
        b3 == SafeGet(v, i + 3)
    IN  IF w = 1 THEN [valid |-> TRUE, len |-> 1]
        ELSE IF w = 2 THEN
            IF IsCont(b1) THEN [valid |-> TRUE, len |-> 2]
            ELSE [valid |-> FALSE, len |-> 1]
        ELSE IF w = 3 THEN
            IF ~SecondOk3(b0, b1) THEN [valid |-> FALSE, len |-> 1]
            ELSE IF ~IsCont(b2) THEN [valid |-> FALSE, len |-> 2]
            ELSE [valid |-> TRUE, len |-> 3]
        ELSE IF w = 4 THEN
            IF ~SecondOk4(b0, b1) THEN [valid |-> FALSE, len |-> 1]
            ELSE IF ~IsCont(b2) THEN [valid |-> FALSE, len |-> 2]
            ELSE IF ~IsCont(b3) THEN [valid |-> FALSE, len |-> 3]
            ELSE [valid |-> TRUE, len |-> 4]
        ELSE [valid |-> FALSE, len |-> 1]

\* the output for the chunk at index i
Utf8Piece(v, i) ==
    LET n == Utf8Next(v, i)
    IN  IF n.valid THEN SubSeq(v, i, i + n.len - 1) ELSE REPLACEMENT

\* the scan of the input, chunk by chunk from index i, appending to acc;
\* it is evaluated in runs of LossyRun chunks
RECURSIVE Utf8LossyRun(_, _, _, _)
Utf8LossyRun(v, i, k, acc) ==
    IF k = 0 \/ i > Len(v) THEN [out |-> acc, next |-> i]
    ELSE Utf8LossyRun(v, i + Utf8Next(v, i).len, k - 1, acc \o Utf8Piece(v, i))

RECURSIVE Utf8LossyFrom(_, _, _)
Utf8LossyFrom(v, i, acc) ==
    IF i > Len(v) THEN acc
    ELSE LET r == Utf8LossyRun(v, i, 16, acc)
         IN  Utf8LossyFrom(v, r.next, r.out)

from_utf8_lossy(v) == Utf8LossyFrom(v, 1, <<>>)

----------------------------------------------------------------------------
(* The byte streams explored: every message form the decoders know, cut    *)
(* at every length and followed by further bytes.                          *)

Byte == 0..255

Versions == {4, 5}

MethodVals == {0, 2, 255}

Ports == {<<0, 80>>, <<1, 187>>, <<255, 255>>}

V4Addrs == {<<0, 0, 0, 0>>, <<127, 0, 0, 1>>, <<192, 168, 1, 254>>,
            <<255, 255, 255, 255>>}

V6Addrs == {Repeat(0, 16), Repeat(0, 15) \o <<1>>, [i \in 1..16 |-> 16 * i - 1],
            Repeat(255, 16)}

\* 'A', a continuation byte, 2- and 3-byte lead bytes, a byte no UTF-8 has
NameVals == {65, 128, 195, 226, 255}

LongNames == {Repeat(65, 255), Repeat(255, 85), Repeat(255, 86),
              Repeat(255, 255)}

Names == SeqsUpTo(NameVals, MaxNameLen)
         \cup {<<226, 130, 172>>, <<240, 159, 152, 128>>, <<97, 46, 99, 111>>}

OtherTags == {0, 2, 255}

TailVals == {7}

Tails == SeqsUpTo(TailVals, MaxTail)

HandshakeMsgs ==
    {<<v, Len(m)>> \o m : v \in Versions, m \in SeqsUpTo(MethodVals, MaxMethods)}
    \cup {<<5, 255>> \o Repeat(2, 255), <<4, 255>>, <<0, 1, 0>>}

V4Msgs == {<<1>> \o a \o p : a \in V4Addrs, p \in Ports}

V6Msgs == {<<4>> \o a \o p : a \in V6Addrs, p \in Ports}

DomainMsgs == {<<3, Len(n)>> \o n \o p : n \in Names, p \in Ports}

LongDomainMsgs == {<<3, Len(n)>> \o n \o <<1, 187>> : n \in LongNames}

OtherMsgs == {<<t>> : t \in OtherTags}

\* a handshake followed by the address of a request
SessionMsgs ==
    {h \o a : h \in {<<5, 0>>, <<5, 2, 0, 2>>},
              a \in {<<1, 127, 0, 0, 1, 0, 80>>, <<3, 1, 65, 1, 187>>,
                     <<4>> \o Repeat(0, 15) \o <<1, 0, 80>>}}

Streams ==
    Prefixes({m \o t : m \in HandshakeMsgs \cup V4Msgs \cup V6Msgs
                             \cup DomainMsgs \cup OtherMsgs \cup SessionMsgs,
                       t \in Tails})
    \cup LongDomainMsgs
    \cup {SubSeq(m, 1, Len(m) - 1) : m \in LongDomainMsgs}

----------------------------------------------------------------------------
(* TcpStream: read_exact and shutdown *)

Decoders == {"read_socks_address", "read_socks_socket_addr", "read_handshake_request"}

FirstPc(d) ==
    CASE d = "read_socks_address" -> "rsa_tag"
      [] d = "read_socks_socket_addr" -> "rssa_tag"
      [] d = "read_handshake_request" -> "rhr_hdr"

\* the byte count of the read_exact the call is suspended at
Need ==
    CASE pc \in {"rsa_tag", "rssa_tag", "rsa_dlen"} -> 1
      [] pc \in {"rsa_v4", "rssa_v4"} -> 4 + 2
      [] pc \in {"rsa_v6addr", "rssa_v6addr"} -> 16
      [] pc \in {"rsa_v6port", "rssa_v6port", "rhr_hdr"} -> 2
      [] pc = "rsa_dname" -> length + 2
      [] pc = "rhr_methods" -> nmet
      [] OTHER -> 0

ReadPcs == {"rsa_tag", "rsa_v4", "rsa_v6addr", "rsa_v6port", "rsa_dlen",
            "rsa_dname", "rssa_tag", "rssa_v4", "rssa_v6addr", "rssa_v6port",
            "rhr_hdr", "rhr_methods"}

\* read_exact(buf) with buf.len() = n can complete with Ok
CanFill(n) == n = 0 \/ arrived - pos >= n

\* the bytes read_exact puts in the buffer
Chunk(n) == SubSeq(stream, pos + 1, pos + n)

\* read_exact(n) returns Ok: the buffer is full, n bytes are consumed
ReadOk(n) ==
    /\ CanFill(n)
    /\ pos' = pos + n
    /\ reads' = reads + 1
    /\ last_io' = "ok"

\* Variant of ReadErr that also shuts the stream down on a failed read.
ReadErr_Closing(n) ==
    /\ n > 0
    /\ \/ /\ closed
          /\ arrived - pos < n
          /\ pos' = arrived
          /\ last_io' = "eof"
          /\ result' = [kind |-> "IOError", err |-> "UnexpectedEof"]
       \/ /\ \E k \in {0, Min(n - 1, arrived - pos)} : pos' = pos + k
          /\ last_io' = "fault"
          /\ result' = [kind |-> "IOError", err |-> "Fault"]
    /\ wr_shutdown' = TRUE
    /\ reads' = reads + 1
    /\ pc' = "done"
    /\ UNCHANGED <<other, calls, stream, arrived, closed, decoder, ver, nmet,
                   length, v6addr, start, wr_at_call, shutdowns>>

\* Variant of ReadErr in which a read on a closed stream keeps waiting.
ReadErr_NoEof(n) ==
    /\ n > 0
    /\ \E k \in {0, Min(n - 1, arrived - pos)} : pos' = pos + k
    /\ last_io' = "fault"
    /\ result' = FromIoError("Fault")
    /\ reads' = reads + 1
    /\ pc' = "done"
    /\ UNCHANGED <<other, calls, stream, arrived, closed, wr_shutdown, decoder, ver, nmet,
                   length, v6addr, start, wr_at_call, shutdowns>>

\* read_exact(n) returns Err (EOF before n bytes, or a transport fault that
\* hits before any byte of the read or after those that had arrived) and the
\* `?` returns it from the decoder, converted
ReadErr(n) ==
    /\ n > 0
    /\ \/ /\ closed
          /\ arrived - pos < n
          /\ pos' = arrived
          /\ last_io' = "eof"
          /\ result' = FromIoError("UnexpectedEof")
       \/ /\ \E k \in {0, Min(n - 1, arrived - pos)} : pos' = pos + k
          /\ last_io' = "fault"
          /\ result' = FromIoError("Fault")
    /\ reads' = reads + 1
    /\ pc' = "done"
    /\ UNCHANGED <<other, calls, stream, arrived, closed, wr_shutdown, decoder, ver, nmet,
                   length, v6addr, start, wr_at_call, shutdowns>>

\* the function returns r
Return(r) == result' = r /\ pc' = "done"

\* the peer's bytes reach the socket while a read_exact is waiting for them
PeerDeliver ==
    /\ pc \in ReadPcs
    /\ ~closed
    /\ ~CanFill(Need)
    /\ arrived < Len(stream)
    /\ arrived' = Min(Len(stream), pos + Need)
    /\ UNCHANGED <<other, calls, stream, closed, pos, wr_shutdown, decoder, pc, ver, nmet,
                   length, v6addr, result, start, wr_at_call, reads, shutdowns,
                   last_io>>

\* the peer closes after its last byte while a read_exact is waiting, or
\* before a read_exact into an empty buffer
PeerClose ==
    /\ pc \in ReadPcs
    /\ ~closed
    /\ (~CanFill(Need) \/ Need = 0)
    /\ arrived = Len(stream)
    /\ closed' = TRUE
    /\ UNCHANGED <<other, calls, stream, arrived, pos, wr_shutdown, decoder, pc, ver, nmet,
                   length, v6addr, result, start, wr_at_call, reads, shutdowns,
                   last_io>>

----------------------------------------------------------------------------
(* The caller *)

\* a task that owns a stream holding s and has not called a decoder yet
Task(s) ==
    [stream |-> s, arrived |-> 0, closed |-> FALSE, pos |-> 0,
     wr_shutdown |-> FALSE, decoder |-> "none", pc |-> "idle", ver |-> 0,
     nmet |-> 0, length |-> 0, v6addr |-> <<>>, result |-> NoResult,
     start |-> 0, wr_at_call |-> FALSE, reads |-> 0, shutdowns |-> 0,
     last_io |-> "none", calls |-> 0]

Init ==
    /\ stream \in Streams
    /\ arrived = 0
    /\ closed = FALSE
    /\ pos = 0
    /\ wr_shutdown = FALSE
    /\ decoder = "none"
    /\ pc = "idle"
    /\ ver = 0
    /\ nmet = 0
    /\ length = 0
    /\ v6addr = <<>>
    /\ result = NoResult
    /\ start = 0
    /\ wr_at_call = FALSE
    /\ reads = 0
    /\ shutdowns = 0
    /\ last_io = "none"
    /\ calls = 0
    /\ other = Task(<<>>)

\* the owner of the stream calls a decoder on it (again, once one returned)
Call ==
    /\ pc \in {"idle", "done"}
    /\ calls < MaxCalls
    /\ calls' = calls + 1
    /\ \E d \in Decoders :
         /\ decoder' = d
         /\ pc' = FirstPc(d)
    /\ start' = pos
    /\ wr_at_call' = wr_shutdown
    /\ reads' = 0
    /\ shutdowns' = 0
    /\ last_io' = "none"
    /\ result' = NoResult
    /\ ver' = 0
    /\ nmet' = 0
    /\ length' = 0
    /\ v6addr' = <<>>
    /\ UNCHANGED <<other, stream, arrived, closed, pos, wr_shutdown>>

----------------------------------------------------------------------------
(* read_handshake_request *)

\* Variant of RHR_ReadHeader that returns the version error at once, with
\* no shutdown.
RHR_ReadHeader_NoShutdown ==
    /\ pc = "rhr_hdr"
    /\ \/ ReadErr(2)
       \/ /\ ReadOk(2)
          /\ LET buf == Chunk(2)
             IN  /\ ver' = buf[1]
                 /\ nmet' = buf[2]
                 /\ IF buf[1] # SOCKS5_VERSION
                    THEN Return(SocksVersionNoSupport(buf[1]))
                    ELSE pc' = "rhr_methods" /\ UNCHANGED result
          /\ UNCHANGED <<other, calls, stream, arrived, closed, wr_shutdown, decoder,
                         length, v6addr, start, wr_at_call, shutdowns>>

\* Variant of RHR_ReadHeader that takes the method count from buf[0].
RHR_ReadHeader_WrongIndex ==
    /\ pc = "rhr_hdr"
    /\ \/ ReadErr(2)
       \/ /\ ReadOk(2)
          /\ LET buf == Chunk(2)
             IN  /\ ver' = buf[1]
                 /\ nmet' = buf[1]
                 /\ pc' = IF buf[1] # SOCKS5_VERSION THEN "rhr_shutdown"
                                                     ELSE "rhr_methods"
          /\ UNCHANGED <<other, calls, stream, arrived, closed, wr_shutdown, decoder,
                         length, v6addr, result, start, wr_at_call, shutdowns>>

\* s.read_exact(&mut buf).await? ; ver, nmet ; the version test
RHR_ReadHeader ==
    /\ pc = "rhr_hdr"
    /\ \/ ReadErr(2)
       \/ /\ ReadOk(2)
          /\ LET buf == Chunk(2)
             IN  /\ ver' = buf[1]
                 /\ nmet' = buf[2]
                 /\ pc' = IF buf[1] # SOCKS5_VERSION THEN "rhr_shutdown"
                                                     ELSE "rhr_methods"
          /\ UNCHANGED <<other, calls, stream, arrived, closed, wr_shutdown, decoder, length,
                         v6addr, result, start, wr_at_call, shutdowns>>

\* Variant of RHR_Shutdown whose successful shutdown leaves the write side
\* open.
RHR_Shutdown_NoEffect ==
    /\ pc = "rhr_shutdown"
    /\ shutdowns' = shutdowns + 1
    /\ wr_shutdown' = wr_shutdown
    /\ \/ /\ last_io' = "ok"
          /\ Return(SocksVersionNoSupport(ver))
       \/ /\ last_io' = "fault"
          /\ Return(FromIoError("ShutdownFault"))
    /\ UNCHANGED <<other, calls, stream, arrived, closed, pos, decoder, ver, nmet,
                   length, v6addr, start, wr_at_call, reads>>

\* Variant of RHR_Shutdown that drops the result of the shutdown.
RHR_Shutdown_IgnoreError ==
    /\ pc = "rhr_shutdown"
    /\ shutdowns' = shutdowns + 1
    /\ \/ /\ wr_shutdown' = TRUE
          /\ last_io' = "ok"
       \/ /\ wr_shutdown' = wr_shutdown
          /\ last_io' = "fault"
    /\ Return(SocksVersionNoSupport(ver))
    /\ UNCHANGED <<other, calls, stream, arrived, closed, pos, decoder, ver, nmet,
                   length, v6addr, start, wr_at_call, reads>>

\* s.shutdown().await? ; return Err(SocksVersionNoSupport { ver })
RHR_Shutdown ==
    /\ pc = "rhr_shutdown"
    /\ shutdowns' = shutdowns + 1
    /\ \/ /\ wr_shutdown' = TRUE
          /\ last_io' = "ok"
          /\ Return(SocksVersionNoSupport(ver))
       \/ /\ wr_shutdown' = wr_shutdown
          /\ last_io' = "fault"
          /\ Return(FromIoError("ShutdownFault"))
    /\ UNCHANGED <<other, calls, stream, arrived, closed, pos, decoder, ver, nmet, length,
                   v6addr, start, wr_at_call, reads>>

\* Variant of RHR_ReadMethods that reads with a single `read`: at EOF it
\* returns the methods received so far, the rest of the buffer zero.
RHR_ReadMethods_Partial ==
    /\ pc = "rhr_methods"
    /\ \/ /\ nmet > 0 /\ closed /\ arrived - pos < nmet
          /\ pos' = arrived
          /\ reads' = reads + 1
          /\ last_io' = "eof"
          /\ Return(Ok(HandshakeRequest(
                 [i \in 1..nmet |-> IF i <= arrived - pos THEN stream[pos + i]
                                                          ELSE 0])))
       \/ /\ ReadOk(nmet)
          /\ Return(Ok(HandshakeRequest(Chunk(nmet))))
    /\ UNCHANGED <<other, calls, stream, arrived, closed, wr_shutdown, decoder, ver,
                   nmet, length, v6addr, start, wr_at_call, shutdowns>>

\* Variant of RHR_ReadMethods whose read polls the stream for an empty
\* buffer too, and takes the 0 bytes of a closed stream for EOF.
RHR_ReadMethods_EofOnEmpty ==
    /\ pc = "rhr_methods"
    /\ \/ /\ nmet = 0 /\ closed /\ arrived = pos
          /\ reads' = reads + 1
          /\ last_io' = "eof"
          /\ Return(FromIoError("UnexpectedEof"))
          /\ UNCHANGED <<other, calls, stream, arrived, closed, pos, wr_shutdown,
                         decoder, ver, nmet, length, v6addr, start, wr_at_call,
                         shutdowns>>
       \/ ReadErr(nmet)
       \/ /\ ~(nmet = 0 /\ closed /\ arrived = pos)
          /\ ReadOk(nmet)
          /\ Return(Ok(HandshakeRequest(Chunk(nmet))))
          /\ UNCHANGED <<other, calls, stream, arrived, closed, wr_shutdown, decoder, ver,
                         nmet, length, v6addr, start, wr_at_call, shutdowns>>

\* Variant of RHR_ReadMethods that reads one byte ahead when the stream
\* holds more than the methods.
RHR_ReadMethods_ReadsAhead ==
    /\ pc = "rhr_methods"
    /\ \/ ReadErr(nmet)
       \/ /\ CanFill(nmet)
          /\ LET ahead == IF Len(stream) - pos > nmet THEN 1 ELSE 0
             IN  /\ pos' = pos + nmet + ahead
                 /\ arrived' = IF arrived < pos + nmet + ahead
                               THEN pos + nmet + ahead ELSE arrived
          /\ reads' = reads + 1
          /\ last_io' = "ok"
          /\ Return(Ok(HandshakeRequest(Chunk(nmet))))
          /\ UNCHANGED <<other, calls, stream, closed, wr_shutdown, decoder, ver,
                         nmet, length, v6addr, start, wr_at_call, shutdowns>>

\* let mut methods = vec![0u8; nmet] ; s.read_exact(&mut methods).await? ; Ok
RHR_ReadMethods ==
    /\ pc = "rhr_methods"
    /\ \/ ReadErr(nmet)
       \/ /\ ReadOk(nmet)
          /\ Return(Ok(HandshakeRequest(Chunk(nmet))))
          /\ UNCHANGED <<other, calls, stream, arrived, closed, wr_shutdown, decoder, ver,
                         nmet, length, v6addr, start, wr_at_call, shutdowns>>

----------------------------------------------------------------------------
(* read_socks_address *)

\* Variant of RSA_ReadTag that decodes an unknown tag as IPV4.
RSA_ReadTag_DefaultV4 ==
    /\ pc = "rsa_tag"
    /\ \/ ReadErr(1)
       \/ /\ ReadOk(1)
          /\ LET a == Chunk(1)[1]
                 addr_type == AddrTypeTryFrom(a)
             IN  pc' = IF ~addr_type.ok THEN "rsa_v4"
                       ELSE IF addr_type.t = "IPV4" THEN "rsa_v4"
                       ELSE IF addr_type.t = "IPV6" THEN "rsa_v6addr"
                       ELSE "rsa_dlen"
          /\ UNCHANGED <<other, calls, stream, arrived, closed, wr_shutdown, decoder, ver,
                         nmet, length, v6addr, result, start, wr_at_call,
                         shutdowns>>

\* stream.read_exact(&mut b).await? ; a.try_into()? ; match addr_type
RSA_ReadTag ==
    /\ pc = "rsa_tag"
    /\ \/ ReadErr(1)
       \/ /\ ReadOk(1)
          /\ LET a == Chunk(1)[1]
                 addr_type == AddrTypeTryFrom(a)
             IN  IF ~addr_type.ok
                 THEN Return(addr_type.err)
                 ELSE /\ pc' = CASE addr_type.t = "IPV4" -> "rsa_v4"
                                 [] addr_type.t = "IPV6" -> "rsa_v6addr"
                                 [] addr_type.t = "DomainName" -> "rsa_dlen"
                      /\ UNCHANGED result
          /\ UNCHANGED <<other, calls, stream, arrived, closed, wr_shutdown, decoder, ver,
                         nmet, length, v6addr, start, wr_at_call, shutdowns>>

\* Variant of DecodeV4 that reads the port before the address.
DecodeV4_PortFirst(buf) ==
    LET c0 == Cursor(buf)
        r1 == read_u16be(c0)
    IN  IF ~r1.ok THEN FromIoError(r1.err)
        ELSE LET r2 == read_u32be(r1.cur)
             IN  IF ~r2.ok THEN FromIoError(r2.err)
                 ELSE Ok(SocketAddrV4(Ipv4AddrFromU32(r2.val), r1.val))

\* the value of the IPV4 arm, from the 6 bytes read
DecodeV4(buf) ==
    LET c0 == Cursor(buf)
        r1 == read_u32be(c0)
    IN  IF ~r1.ok THEN FromIoError(r1.err)
        ELSE LET r2 == read_u16be(r1.cur)
             IN  IF ~r2.ok THEN FromIoError(r2.err)
                 ELSE Ok(SocketAddrV4(Ipv4AddrFromU32(r1.val), r2.val))

\* the result of a socket-address decode as an Address
AsAddress(r) == IF r.kind = "Ok" THEN Ok(SocketAddress(r.val)) ELSE r

\* IPV4 arm: read_exact of 4 + 2 bytes, address and port from a cursor
RSA_ReadV4 ==
    /\ pc = "rsa_v4"
    /\ \/ ReadErr(4 + 2)
       \/ /\ ReadOk(4 + 2)
          /\ Return(AsAddress(DecodeV4(Chunk(4 + 2))))
          /\ UNCHANGED <<other, calls, stream, arrived, closed, wr_shutdown, decoder, ver,
                         nmet, length, v6addr, start, wr_at_call, shutdowns>>

\* IPV6 arm: read_exact of the 16 address bytes
RSA_ReadV6Addr ==
    /\ pc = "rsa_v6addr"
    /\ \/ ReadErr(16)
       \/ /\ ReadOk(16)
          /\ v6addr' = Ipv6AddrFromOctets(Chunk(16))
          /\ pc' = "rsa_v6port"
          /\ UNCHANGED <<other, calls, stream, arrived, closed, wr_shutdown, decoder, ver,
                         nmet, length, result, start, wr_at_call, shutdowns>>

\* the value of the IPV6 arm, from the address and the 2 port bytes
DecodeV6(addr, buf) ==
    LET r == read_u16be(Cursor(buf))
    IN  IF ~r.ok THEN FromIoError(r.err)
        ELSE Ok(SocketAddrV6(addr, r.val, 0, 0))

\* IPV6 arm: read_exact of the 2 port bytes
RSA_ReadV6Port ==
    /\ pc = "rsa_v6port"
    /\ \/ ReadErr(2)
       \/ /\ ReadOk(2)
          /\ Return(AsAddress(DecodeV6(v6addr, Chunk(2))))
          /\ UNCHANGED <<other, calls, stream, arrived, closed, wr_shutdown, decoder, ver,
                         nmet, length, v6addr, start, wr_at_call, shutdowns>>

\* DomainName arm: read_exact of the length byte
RSA_ReadDomainLen ==
    /\ pc = "rsa_dlen"
    /\ \/ ReadErr(1)
       \/ /\ ReadOk(1)
          /\ length' = Chunk(1)[1]
          /\ pc' = "rsa_dname"
          /\ UNCHANGED <<other, calls, stream, arrived, closed, wr_shutdown, decoder, ver,
                         nmet, v6addr, result, start, wr_at_call, shutdowns>>

\* Variant of RawAddr with a buffer of 256 bytes.
RawAddr_Buf256(addr_len, bytes) ==
    [i \in 1..256 |-> IF i <= addr_len + 2 THEN bytes[i] ELSE 0]

\* raw_addr = [0u8; 257] after read_exact(&mut raw_addr[..addr_len + 2])
RawAddr(addr_len, bytes) ==
    [i \in 1..257 |-> IF i <= addr_len + 2 THEN bytes[i] ELSE 0]

\* Variant of DecodeDomain that rejects a name that is not valid UTF-8.
DecodeDomain_Strict(addr_len, raw_addr) ==
    LET cursor == Cursor(SubSeq(raw_addr, addr_len + 1, Len(raw_addr)))
        r == read_u16be(cursor)
        name == SubSeq(raw_addr, 1, addr_len)
    IN  IF ~r.ok THEN FromIoError(r.err)
        ELSE IF from_utf8_lossy(name) # name
        THEN [kind |-> "InvalidDomainEncoding"]
        ELSE Ok(DomainNameAddress(name, r.val))

\* the value of the DomainName arm: port from a cursor over
\* raw_addr[addr_len..], name from raw_addr[..addr_len]
DecodeDomain(addr_len, raw_addr) ==
    LET cursor == Cursor(SubSeq(raw_addr, addr_len + 1, Len(raw_addr)))
        r == read_u16be(cursor)
    IN  IF ~r.ok THEN FromIoError(r.err)
        ELSE Ok(DomainNameAddress(from_utf8_lossy(SubSeq(raw_addr, 1, addr_len)),
                                  r.val))

\* DomainName arm: read_exact of name and port in one operation
RSA_ReadDomain ==
    /\ pc = "rsa_dname"
    /\ \/ ReadErr(length + 2)
       \/ /\ ReadOk(length + 2)
          /\ Return(DecodeDomain(length, RawAddr(length, Chunk(length + 2))))
          /\ UNCHANGED <<other, calls, stream, arrived, closed, wr_shutdown, decoder, ver,
                         nmet, length, v6addr, start, wr_at_call, shutdowns>>

----------------------------------------------------------------------------
(* read_socks_socket_addr *)

\* Variant of RSSA_ReadTag that goes on to decode a domain name, as
\* read_socks_address does.
RSSA_ReadTag_DecodesDomain ==
    /\ pc = "rssa_tag"
    /\ \/ ReadErr(1)
       \/ /\ ReadOk(1)
          /\ LET a == Chunk(1)[1]
                 addr_type == AddrTypeTryFrom(a)
             IN  IF ~addr_type.ok
                 THEN Return(addr_type.err)
                 ELSE /\ pc' = CASE addr_type.t = "IPV4" -> "rssa_v4"
                                 [] addr_type.t = "IPV6" -> "rssa_v6addr"
                                 [] addr_type.t = "DomainName" -> "rsa_dlen"
                      /\ UNCHANGED result
          /\ UNCHANGED <<other, calls, stream, arrived, closed, wr_shutdown, decoder, ver,
                         nmet, length, v6addr, start, wr_at_call, shutdowns>>

\* stream.read_exact(&mut b).await? ; a.try_into()? ; match addr_type
RSSA_ReadTag ==
    /\ pc = "rssa_tag"
    /\ \/ ReadErr(1)
       \/ /\ ReadOk(1)
          /\ LET a == Chunk(1)[1]
                 addr_type == AddrTypeTryFrom(a)
             IN  IF ~addr_type.ok
                 THEN Return(addr_type.err)
                 ELSE IF addr_type.t = "IPV4"
                 THEN pc' = "rssa_v4" /\ UNCHANGED result
                 ELSE IF addr_type.t = "IPV6"
                 THEN pc' = "rssa_v6addr" /\ UNCHANGED result
                 ELSE Return(AddressTypeNotSupported(AddrTypeAsU8(addr_type.t)))
          /\ UNCHANGED <<other, calls, stream, arrived, closed, wr_shutdown, decoder, ver,
                         nmet, length, v6addr, start, wr_at_call, shutdowns>>

\* Variant of RSSA_ReadV4 whose buffer holds the 4 address bytes only.
RSSA_ReadV4_NoPortBytes ==
    /\ pc = "rssa_v4"
    /\ \/ ReadErr(4)
       \/ /\ ReadOk(4)
          /\ Return(DecodeV4(Chunk(4)))
          /\ UNCHANGED <<other, calls, stream, arrived, closed, wr_shutdown, decoder, ver,
                         nmet, length, v6addr, start, wr_at_call, shutdowns>>

\* IPV4 arm
RSSA_ReadV4 ==
    /\ pc = "rssa_v4"
    /\ \/ ReadErr(4 + 2)
       \/ /\ ReadOk(4 + 2)
          /\ Return(DecodeV4(Chunk(4 + 2)))
          /\ UNCHANGED <<other, calls, stream, arrived, closed, wr_shutdown, decoder, ver,
                         nmet, length, v6addr, start, wr_at_call, shutdowns>>

\* IPV6 arm: the 16 address bytes
RSSA_ReadV6Addr ==
    /\ pc = "rssa_v6addr"
    /\ \/ ReadErr(16)
       \/ /\ ReadOk(16)
          /\ v6addr' = Ipv6AddrFromOctets(Chunk(16))
          /\ pc' = "rssa_v6port"
          /\ UNCHANGED <<other, calls, stream, arrived, closed, wr_shutdown, decoder, ver,
                         nmet, length, result, start, wr_at_call, shutdowns>>

\* IPV6 arm: the 2 port bytes
RSSA_ReadV6Port ==
    /\ pc = "rssa_v6port"
    /\ \/ ReadErr(2)
       \/ /\ ReadOk(2)
          /\ Return(DecodeV6(v6addr, Chunk(2)))
          /\ UNCHANGED <<other, calls, stream, arrived, closed, wr_shutdown, decoder, ver,
                         nmet, length, v6addr, start, wr_at_call, shutdowns>>

----------------------------------------------------------------------------
(* Each decoder as a function of the bytes b of a fresh stream that        *)
(* delivers b and closes, without transport fault: the returned value or   *)
(* error, and the number of bytes consumed.                                *)

Outcome(r, n) == [result |-> r, consumed |-> n]

\* read_exact hit EOF: all of b is consumed
ShortOf(b) == Outcome(FromIoError("UnexpectedEof"), Len(b))

\* read_handshake_request
HandshakeOf(b) ==
    IF Len(b) < 2 THEN ShortOf(b)
    ELSE LET v == b[1]
             n == b[2]
         IN  IF v # SOCKS5_VERSION THEN Outcome(SocksVersionNoSupport(v), 2)
             ELSE IF Len(b) - 2 < n THEN ShortOf(b)
             ELSE Outcome(Ok(HandshakeRequest(SubSeq(b, 3, 2 + n))), 2 + n)

\* read_socks_socket_addr
SocketAddrOf(b) ==
    IF Len(b) < 1 THEN ShortOf(b)
    ELSE LET addr_type == AddrTypeTryFrom(b[1])
         IN  IF ~addr_type.ok THEN Outcome(addr_type.err, 1)
             ELSE IF addr_type.t = "IPV4" THEN
                 IF Len(b) - 1 < 4 + 2 THEN ShortOf(b)
                 ELSE Outcome(DecodeV4(SubSeq(b, 2, 7)), 7)
             ELSE IF addr_type.t = "IPV6" THEN
                 IF Len(b) - 1 < 16 \/ Len(b) - 17 < 2 THEN ShortOf(b)
                 ELSE Outcome(DecodeV6(Ipv6AddrFromOctets(SubSeq(b, 2, 17)),
                                       SubSeq(b, 18, 19)), 19)
             ELSE Outcome(AddressTypeNotSupported(AddrTypeAsU8(addr_type.t)), 1)

\* read_socks_address
AddressOf(b) ==
    IF Len(b) < 1 THEN ShortOf(b)
    ELSE LET addr_type == AddrTypeTryFrom(b[1])
         IN  IF ~addr_type.ok THEN Outcome(addr_type.err, 1)
             ELSE IF addr_type.t = "IPV4" THEN
                 IF Len(b) - 1 < 4 + 2 THEN ShortOf(b)
                 ELSE Outcome(AsAddress(DecodeV4(SubSeq(b, 2, 7))), 7)
             ELSE IF addr_type.t = "IPV6" THEN
                 IF Len(b) - 1 < 16 \/ Len(b) - 17 < 2 THEN ShortOf(b)
                 ELSE Outcome(AsAddress(DecodeV6(Ipv6AddrFromOctets(SubSeq(b, 2, 17)),
                                                 SubSeq(b, 18, 19))), 19)
             ELSE IF Len(b) - 1 < 1 THEN ShortOf(b)
             ELSE LET addr_len == b[2]
                  IN  IF Len(b) - 2 < addr_len + 2 THEN ShortOf(b)
                      ELSE Outcome(DecodeDomain(addr_len,
                                       RawAddr(addr_len, SubSeq(b, 3, 4 + addr_len))),
                                   4 + addr_len)

----------------------------------------------------------------------------

Next ==
    \/ Call
    \/ PeerDeliver
    \/ PeerClose
    \/ RHR_ReadHeader
    \/ RHR_Shutdown
    \/ RHR_ReadMethods
    \/ RSA_ReadTag
    \/ RSA_ReadV4
    \/ RSA_ReadV6Addr
    \/ RSA_ReadV6Port
    \/ RSA_ReadDomainLen
    \/ RSA_ReadDomain
    \/ RSSA_ReadTag
    \/ RSSA_ReadV4
    \/ RSSA_ReadV6Addr
    \/ RSSA_ReadV6Port

Spec == Init /\ [][Next]_vars

----------------------------------------------------------------------------
(* Two tasks, each decoding on a stream of its own *)

\* the streams of the two tasks
ParStreams ==
    { <<5, 1, 0>>, <<4, 1>>,
      <<1, 10, 0, 0, 1, 0, 80>>,
      <<3, 1, 65, 0, 80>>, <<3, 2, 65, 65, 1, 187>>,
      <<4>> \o Repeat(0, 15) \o <<1>> \o <<1, 187>> }

\* the running task: its stream and the locals of its call
Self ==
    [stream |-> stream, arrived |-> arrived, closed |-> closed, pos |-> pos,
     wr_shutdown |-> wr_shutdown, decoder |-> decoder, pc |-> pc, ver |-> ver,
     nmet |-> nmet, length |-> length, v6addr |-> v6addr, result |-> result,
     start |-> start, wr_at_call |-> wr_at_call, reads |-> reads,
     shutdowns |-> shutdowns, last_io |-> last_io, calls |-> calls]

\* Variant of Switch in which the domain length is one cell shared by all
\* calls instead of a local of each.
Switch_SharedLength ==
    /\ other' = Self
    /\ stream' = other.stream
    /\ arrived' = other.arrived
    /\ closed' = other.closed
    /\ pos' = other.pos
    /\ wr_shutdown' = other.wr_shutdown
    /\ decoder' = other.decoder
    /\ pc' = other.pc
    /\ ver' = other.ver
    /\ nmet' = other.nmet
    /\ length' = length
    /\ v6addr' = other.v6addr
    /\ result' = other.result
    /\ start' = other.start
    /\ wr_at_call' = other.wr_at_call
    /\ reads' = other.reads
    /\ shutdowns' = other.shutdowns
    /\ last_io' = other.last_io
    /\ calls' = other.calls

\* The running task yields at an .await (or has not started, or has
\* returned) and the executor runs the other task: each task's stream is
\* its own &mut TcpStream, and the locals of an async fn live in its future.
Switch ==
    /\ other' = Self
    /\ stream' = other.stream
    /\ arrived' = other.arrived
    /\ closed' = other.closed
    /\ pos' = other.pos
    /\ wr_shutdown' = other.wr_shutdown
    /\ decoder' = other.decoder
    /\ pc' = other.pc
    /\ ver' = other.ver
    /\ nmet' = other.nmet
    /\ length' = other.length
    /\ v6addr' = other.v6addr
    /\ result' = other.result
    /\ start' = other.start
    /\ wr_at_call' = other.wr_at_call
    /\ reads' = other.reads
    /\ shutdowns' = other.shutdowns
    /\ last_io' = other.last_io
    /\ calls' = other.calls

\* each task calls one decoder on its stream
CallOnce ==
    /\ calls = 0
    /\ Call

InitPar ==
    /\ stream \in ParStreams
    /\ arrived = 0
    /\ closed = FALSE
    /\ pos = 0
    /\ wr_shutdown = FALSE
    /\ decoder = "none"
    /\ pc = "idle"
    /\ ver = 0
    /\ nmet = 0
    /\ length = 0
    /\ v6addr = <<>>
    /\ result = NoResult
    /\ start = 0
    /\ wr_at_call = FALSE
    /\ reads = 0
    /\ shutdowns = 0
    /\ last_io = "none"
    /\ calls = 0
    /\ other \in { Task(s) : s \in ParStreams }

NextPar ==
    \/ CallOnce
    \/ Switch
    \/ PeerDeliver
    \/ PeerClose
    \/ RHR_ReadHeader
    \/ RHR_Shutdown
    \/ RHR_ReadMethods
    \/ RSA_ReadTag
    \/ RSA_ReadV4
    \/ RSA_ReadV6Addr
    \/ RSA_ReadV6Port
    \/ RSA_ReadDomainLen
    \/ RSA_ReadDomain
    \/ RSSA_ReadTag
    \/ RSSA_ReadV4
    \/ RSSA_ReadV6Addr
    \/ RSSA_ReadV6Port

SpecPar == InitPar /\ [][NextPar]_vars

----------------------------------------------------------------------------
(* The decoders on a stream that delivers or closes, polled by a fair     *)
(* executor                                                               *)

\* a read_exact completes because its bytes arrived or the stream closed
ReadyStep ==
    /\ \/ RHR_ReadHeader
       \/ RHR_ReadMethods
       \/ RSA_ReadTag
       \/ RSA_ReadV4
       \/ RSA_ReadV6Addr
       \/ RSA_ReadV6Port
       \/ RSA_ReadDomainLen
       \/ RSA_ReadDomain
       \/ RSSA_ReadTag
       \/ RSSA_ReadV4
       \/ RSSA_ReadV6Addr
       \/ RSSA_ReadV6Port
    /\ last_io' # "fault"

\* The peer sends what it has to send and then closes; a future whose read
\* can complete is polled; shutdown on a TcpStream completes at once.
\* Transport faults may happen and are never required to.
Fairness ==
    /\ WF_vars(PeerDeliver)
    /\ WF_vars(PeerClose)
    /\ WF_vars(ReadyStep)
    /\ WF_vars(RHR_Shutdown)

\* the streams the calls are followed to their return on
LiveStreams ==
    ParStreams \cup { <<5, 1, 0, 3, 1, 65, 0, 80>>, <<5, 0, 1, 10, 0, 0, 1, 0, 80>> }

InitLive ==
    /\ stream \in LiveStreams
    /\ arrived = 0
    /\ closed = FALSE
    /\ pos = 0
    /\ wr_shutdown = FALSE
    /\ decoder = "none"
    /\ pc = "idle"
    /\ ver = 0
    /\ nmet = 0
    /\ length = 0
    /\ v6addr = <<>>
    /\ result = NoResult
    /\ start = 0
    /\ wr_at_call = FALSE
    /\ reads = 0
    /\ shutdowns = 0
    /\ last_io = "none"
    /\ calls = 0
    /\ other = Task(<<>>)

SpecLive == InitLive /\ [][Next]_vars /\ Fairness

----------------------------------------------------------------------------
(* Vocabulary of the properties *)

Returned == pc = "done"

Consumed == pos - start

\* byte i (1-based) of the stream as the call found it
At(i) == stream[start + i]

\* the stream holds at least n bytes from where the call started
Holds(n) == Len(stream) - start >= n

IsAddrDecoder == decoder \in {"read_socks_address", "read_socks_socket_addr"}

\* the call's first read_exact did not fail
FirstReadDone == reads >= 1 /\ ~(reads = 1 /\ last_io \in {"eof", "fault"})

ReadFailure == result.kind = "IOError" /\ result.err \in {"UnexpectedEof", "Fault"}

----------------------------------------------------------------------------
(* C1: version mismatch *)

\* C1 as stated: whenever read_handshake_request has been given two bytes
\* of which the first is not 0x05, it returns SocksVersionNoSupport with
\* that byte and the write side of the stream is shut down.
C1_AsStated ==
    (Returned /\ decoder = "read_handshake_request" /\ Consumed >= 2 /\ At(1) # 5)
        => (result = SocksVersionNoSupport(At(1)) /\ wr_shutdown)

\* C1 (amended): in that case one shutdown is attempted; when it succeeds
\* the call returns SocksVersionNoSupport with the first byte and the write
\* side is shut down, and when the shutdown itself fails the call returns
\* IOError instead.
C1_VersionMismatch ==
    (Returned /\ decoder = "read_handshake_request" /\ Consumed >= 2 /\ At(1) # 5)
        => /\ shutdowns = 1
           /\ \/ result = SocksVersionNoSupport(At(1)) /\ wr_shutdown
              \/ result = FromIoError("ShutdownFault") /\ last_io = "fault"

C1_Witness ==
    /\ Returned /\ decoder = "read_handshake_request"
    /\ result = SocksVersionNoSupport(4)
    /\ At(1) = 4
    /\ wr_shutdown /\ ~wr_at_call

----------------------------------------------------------------------------
\* C2: whenever read_handshake_request returns SocksVersionNoSupport, one
\* shutdown of the stream has completed successfully, exactly 2 bytes were
\* consumed and the header read is the only read the call made, whatever
\* the method count and the following bytes are.
C2_ShutdownBeforeError ==
    (Returned /\ result.kind = "SocksVersionNoSupport")
        => /\ decoder = "read_handshake_request"
           /\ shutdowns = 1 /\ last_io = "ok" /\ wr_shutdown
           /\ Consumed = 2
           /\ reads = 1
           /\ result.ver = At(1)

C2_Witness ==
    /\ Returned /\ result.kind = "SocksVersionNoSupport"
    /\ nmet > 0
    /\ Len(stream) >= pos + nmet
    /\ Consumed = 2

----------------------------------------------------------------------------
\* C3: a run of any decoder that ends in success, in a read failure
\* (IOError from a short read or a transport fault) or in
\* AddressTypeNotSupported has attempted no shutdown and leaves the shutdown
\* state of the stream as it was at the call; the state differs from the one
\* at the call only in read_handshake_request after a version other than 5.
C3_ShutdownOnlyOnMismatch ==
    /\ (Returned /\ (result.kind \in {"Ok", "AddressTypeNotSupported"} \/ ReadFailure))
          => (shutdowns = 0 /\ wr_shutdown = wr_at_call)
    /\ (shutdowns > 0 \/ wr_shutdown # wr_at_call)
          => (decoder = "read_handshake_request" /\ Consumed = 2 /\ At(1) # 5)

C3_Witness ==
    /\ Returned /\ result.kind = "AddressTypeNotSupported"
    /\ wr_at_call /\ wr_shutdown
    /\ shutdowns = 0

----------------------------------------------------------------------------
(* C4: short reads *)

\* the length of the message the call decodes, from its first two bytes
WireLen ==
    IF decoder = "read_handshake_request" THEN 2 + At(2)
    ELSE IF At(1) = 1 THEN 7
    ELSE IF At(1) = 4 THEN 19
    ELSE 4 + At(2)

\* C4: when a read step of a decoder ends because the stream closed or
\* faulted before the step's byte count arrived, the decoder returns
\* IOError; a decoder that returns a value has consumed its whole message,
\* all of it bytes the stream delivered.
C4_ShortReadIsIOError ==
    /\ (Returned /\ reads >= 1 /\ last_io \in {"eof", "fault"} /\ shutdowns = 0)
          => ReadFailure
    /\ (Returned /\ result.kind = "Ok")
          => /\ last_io = "ok"
             /\ Holds(2) /\ Holds(WireLen)
             /\ Consumed = WireLen
             /\ pos <= arrived

C4_Witness ==
    /\ Returned /\ decoder = "read_socks_address"
    /\ reads = 3 /\ last_io = "eof"
    /\ Consumed > 2
    /\ result = FromIoError("UnexpectedEof")

----------------------------------------------------------------------------
----------------------------------------------------------------------------
(* C6, C7: domain names *)

\* the name bytes and the port of the domain message the call found
NameBytes == SubSeq(stream, start + 3, start + 2 + At(2))

PortAfter(n) == 256 * At(n + 1) + At(n + 2)

\* C6: on a stream holding 0x03, L, L name bytes and 2 port bytes that does
\* not fault, read_socks_address returns DomainNameAddress(name, port) with
\* name the lossy UTF-8 decoding of the name bytes and port the given port,
\* and Address::len() of the value is 4 + L, the number of bytes consumed.
C6_DomainRoundTrip ==
    (/\ Returned /\ decoder = "read_socks_address"
     /\ Holds(2) /\ At(1) = 3 /\ Holds(4 + At(2))
     /\ last_io # "fault")
        => /\ result = Ok(DomainNameAddress(from_utf8_lossy(NameBytes),
                                            PortAfter(2 + At(2))))
           /\ Consumed = 4 + At(2)
           /\ AddressLen(result.val) = 4 + At(2)
           /\ AddressLen(result.val) = Consumed

\* C7: every DomainNameAddress returned by read_socks_address has a name
\* of at most 255 bytes.
C7_NameFitsLengthByte ==
    (/\ Returned /\ decoder = "read_socks_address"
     /\ result.kind = "Ok" /\ result.val.type = "DomainNameAddress")
        => Len(result.val.name) \in 0..255

----------------------------------------------------------------------------
\* C8: when the first byte handed to read_socks_address or
\* read_socks_socket_addr is none of 0x01, 0x03, 0x04, the call returns
\* AddressTypeNotSupported carrying that byte, having made one read and
\* consumed one byte.
C8_UnknownTag ==
    (/\ Returned /\ IsAddrDecoder
     /\ FirstReadDone
     /\ At(1) \notin {1, 3, 4})
        => /\ result = AddressTypeNotSupported(At(1))
           /\ Consumed = 1
           /\ reads = 1

C8_Witness ==
    /\ Returned /\ decoder = "read_socks_address"
    /\ result = AddressTypeNotSupported(255)
    /\ Consumed = 1
    /\ Len(stream) > pos

----------------------------------------------------------------------------
\* C9: when the first byte handed to read_socks_socket_addr is 0x03, the
\* call returns AddressTypeNotSupported{code: 3}, having made one read and
\* consumed one byte, whether or not anything follows.
C9_SocketAddrRejectsDomain ==
    (/\ Returned /\ decoder = "read_socks_socket_addr"
     /\ FirstReadDone
     /\ At(1) = 3)
        => /\ result = AddressTypeNotSupported(3)
           /\ Consumed = 1
           /\ reads = 1

C9_Witness ==
    /\ Returned /\ decoder = "read_socks_socket_addr"
    /\ result = AddressTypeNotSupported(3)
    /\ Len(stream) >= pos + 3
    /\ Consumed = 1

----------------------------------------------------------------------------
\* C10: on a stream holding 0x01, 4 address bytes and 2 port bytes that
\* does not fault, read_socks_address returns SocketAddress(V4(a, p)) with
\* a those 4 bytes and p the port they encode, has consumed 7 bytes, and
\* Address::len() of the value is 7.
C10_IPv4RoundTrip ==
    (/\ Returned /\ decoder = "read_socks_address"
     /\ Holds(7) /\ At(1) = 1
     /\ last_io # "fault")
        => /\ result = Ok(SocketAddress(SocketAddrV4(
                             SubSeq(stream, start + 2, start + 5), PortAfter(5))))
           /\ Consumed = 7
           /\ AddressLen(result.val) = 7

C10_Witness ==
    /\ Returned /\ decoder = "read_socks_address"
    /\ result = Ok(SocketAddress(SocketAddrV4(<<192, 168, 1, 254>>, 443)))
    /\ Consumed = 7

----------------------------------------------------------------------------
\* C11: on a stream holding 0x04, 16 address bytes and 2 port bytes that
\* does not fault, read_socks_address returns SocketAddress(V6(a, p, 0, 0))
\* with a those 16 bytes, flowinfo and scope id zero, has consumed 19 bytes,
\* and Address::len() of the value is 19.
C11_IPv6RoundTrip ==
    (/\ Returned /\ decoder = "read_socks_address"
     /\ Holds(19) /\ At(1) = 4
     /\ last_io # "fault")
        => /\ result = Ok(SocketAddress(SocketAddrV6(
                             SubSeq(stream, start + 2, start + 17), PortAfter(17),
                             0, 0)))
           /\ result.val.addr.flowinfo = 0 /\ result.val.addr.scope_id = 0
           /\ Consumed = 19
           /\ AddressLen(result.val) = 19

C11_Witness ==
    /\ Returned /\ decoder = "read_socks_address"
    /\ result = Ok(SocketAddress(SocketAddrV6(Repeat(0, 15) \o <<1>>, 443, 0, 0)))
    /\ Consumed = 19

----------------------------------------------------------------------------
(* C14: the content of a domain name *)

ResultKinds == {"None", "Ok", "IOError", "SocksVersionNoSupport",
                "AddressTypeNotSupported"}

\* C14: on a stream holding 0x03, L and L + 2 further bytes that does not
\* fault, read_socks_address returns a DomainNameAddress whatever the name
\* bytes are; no decoder ever returns InvalidDomainEncoding.
C14_NameContentNeverFails ==
    /\ result.kind \in ResultKinds
    /\ (/\ Returned /\ decoder = "read_socks_address"
        /\ Holds(2) /\ At(1) = 3 /\ Holds(4 + At(2))
        /\ last_io # "fault")
          => /\ result.kind = "Ok"
             /\ result.val.type = "DomainNameAddress"
             /\ Consumed = 4 + At(2)

C14_Witness ==
    /\ Returned /\ decoder = "read_socks_address"
    /\ result.kind = "Ok"
    /\ result.val.type = "DomainNameAddress"
    /\ NameBytes = <<255, 128>>
    /\ result.val.name = REPLACEMENT \o REPLACEMENT

----------------------------------------------------------------------------
(* C15: the port *)

\* the port of a returned address
PortOf(v) == IF decoder = "read_socks_address" /\ v.type = "DomainNameAddress"
             THEN v.port
             ELSE IF decoder = "read_socks_address" THEN v.addr.port
             ELSE v.port

\* the bytes of the message before its port: tag and address, or tag,
\* length byte and name
BeforePort == IF At(1) = 1 THEN 1 + 4
              ELSE IF At(1) = 4 THEN 1 + 16
              ELSE 2 + At(2)

\* C15: every address returned by read_socks_address or
\* read_socks_socket_addr has the port 256 * b1 + b2, where b1, b2 are the
\* two bytes that follow the 4 address bytes, the 16 address bytes or the L
\* name bytes, and are the last two bytes the call consumed.
C15_PortBigEndian ==
    (Returned /\ IsAddrDecoder /\ result.kind = "Ok")
        => /\ PortOf(result.val) = 256 * At(BeforePort + 1) + At(BeforePort + 2)
           /\ Consumed = BeforePort + 2
           /\ PortOf(result.val) = 256 * stream[pos - 1] + stream[pos]

C15_Witness ==
    /\ Returned /\ decoder = "read_socks_socket_addr"
    /\ result.kind = "Ok" /\ result.val.fam = "V6"
    /\ stream[pos - 1] = 1 /\ stream[pos] = 187
    /\ result.val.port = 443

----------------------------------------------------------------------------
\* C17: when the version byte is not 0x05 and the shutdown fails,
\* read_handshake_request returns the shutdown's error as IOError;
\* SocksVersionNoSupport is returned only after a shutdown that succeeded.
C17_ShutdownErrorPropagates ==
    /\ (/\ Returned /\ decoder = "read_handshake_request"
        /\ shutdowns = 1 /\ last_io = "fault")
          => /\ result = FromIoError("ShutdownFault")
             /\ Consumed = 2 /\ At(1) # 5
    /\ (Returned /\ result.kind = "SocksVersionNoSupport")
          => (shutdowns = 1 /\ last_io = "ok")

C17_Witness ==
    /\ Returned /\ decoder = "read_handshake_request"
    /\ result = FromIoError("ShutdownFault")
    /\ shutdowns = 1
    /\ At(1) = 4

----------------------------------------------------------------------------
----------------------------------------------------------------------------
\* C20: in the DomainName arm of read_socks_address, for every length byte
\* L the L + 2 bytes read fit the 257-byte buffer, the name is decoded from
\* the first L of them and the port from the two bytes behind the name: the
\* port read finds its two bytes and they are the last two bytes consumed.
C20_DomainIndicesInBounds ==
    (/\ Returned /\ decoder = "read_socks_address"
     /\ reads = 3 /\ last_io = "ok"
     /\ At(1) = 3)
        => /\ length = At(2) /\ length \in 0..255
           /\ length + 2 <= Len(RawAddr(length, SubSeq(stream, start + 3, pos)))
           /\ Consumed = 4 + length
           /\ result.kind = "Ok"
           /\ result.val.name = from_utf8_lossy(SubSeq(stream, start + 3,
                                                         start + 2 + length))
           /\ result.val.port = 256 * At(2 + length + 1) + At(2 + length + 2)
           /\ pos = start + 2 + length + 2

C20_Witness ==
    /\ Returned /\ decoder = "read_socks_address"
    /\ length = 255
    /\ result.kind = "Ok"
    /\ result.val.port = 443
    /\ Len(result.val.name) = 255

----------------------------------------------------------------------------
(* C12: no state between calls *)

\* the bytes of the stream from where the call started
Suffix == SubSeq(stream, start + 1, Len(stream))

\* what the decoder of this call does on a fresh stream holding Suffix
Alone ==
    IF decoder = "read_handshake_request" THEN HandshakeOf(Suffix)
    ELSE IF decoder = "read_socks_address" THEN AddressOf(Suffix)
    ELSE SocketAddrOf(Suffix)

\* C12: whatever calls were made on the stream before, a call that meets no
\* transport fault returns what its decoder returns on a fresh stream
\* holding the bytes from the call's first byte on, and consumes as many
\* bytes; after a handshake request the next call starts at the byte behind
\* its last method.
C12_StatelessAcrossCalls ==
    /\ (Returned /\ last_io # "fault")
          => /\ result = Alone.result
             /\ Consumed = Alone.consumed
    /\ (/\ Returned /\ decoder = "read_handshake_request" /\ result.kind = "Ok"
        /\ calls < MaxCalls)
          => ENABLED Call /\ pos = start + 2 + Len(result.val.methods)

C12_Witness ==
    /\ Returned /\ calls = 2
    /\ decoder = "read_socks_address"
    /\ Len(stream) >= 2 /\ stream[1] = 5 /\ stream[2] = 2
    /\ start = 4
    /\ wr_at_call = FALSE
    /\ result = Ok(DomainNameAddress(<<65>>, 443))
    /\ result = AddressOf(<<3, 1, 65, 1, 187>>).result

----------------------------------------------------------------------------
\* C13: on a stream whose first byte is 0x01 or 0x04 and that does not
\* fault, read_socks_address and read_socks_socket_addr are the same
\* function of the bytes: both consume what read_socks_socket_addr consumes
\* on those bytes, read_socks_socket_addr returns x where
\* read_socks_address returns SocketAddress(x), and both return IOError on
\* the same truncated inputs.
C13_SameOnIpTags ==
    (/\ Returned /\ IsAddrDecoder
     /\ FirstReadDone
     /\ At(1) \in {1, 4}
     /\ last_io # "fault")
        => LET o == SocketAddrOf(Suffix)
           IN  /\ result = IF decoder = "read_socks_address"
                           THEN AsAddress(o.result) ELSE o.result
               /\ Consumed = o.consumed
               /\ (result.kind = "IOError") = (Len(Suffix) < WireLen)

C13_Witness ==
    /\ Returned /\ decoder = "read_socks_socket_addr"
    /\ reads = 3 /\ last_io = "eof"
    /\ result = FromIoError("UnexpectedEof")
    /\ Consumed = 18

----------------------------------------------------------------------------
(* C16: decodes on different streams *)

\* what the decoder of task t's call does on a fresh stream holding the
\* bytes of t's stream from where the call started
AloneOf(t) ==
    LET b == SubSeq(t.stream, t.start + 1, Len(t.stream))
    IN  IF t.decoder = "read_handshake_request" THEN HandshakeOf(b)
        ELSE IF t.decoder = "read_socks_address" THEN AddressOf(b)
        ELSE SocketAddrOf(b)

Undisturbed(t) ==
    (t.pc = "done" /\ t.last_io # "fault")
        => /\ t.result = AloneOf(t).result
           /\ t.pos - t.start = AloneOf(t).consumed

\* C16: with two tasks decoding on a stream each, their read steps
\* interleaved in any order, the call of either task that meets no
\* transport fault returns what its decoder returns alone on the bytes of
\* its own stream, and consumes as many bytes of it.
C16_TasksIndependent ==
    /\ Undisturbed(Self)
    /\ Undisturbed(other)

\* a domain decode completed while the other task is halfway through a
\* domain decode of a different length
C16_Witness ==
    /\ pc = "done" /\ decoder = "read_socks_address"
    /\ result = Ok(DomainNameAddress(<<65, 65>>, 443))
    /\ reads = 3
    /\ other.pc = "rsa_dname" /\ other.length = 1
    /\ other.reads = 2

----------------------------------------------------------------------------
(* C18: calls return *)

\* the read_exact the call is suspended at can complete
Completable == CanFill(Need) \/ closed

\* C18: a call makes at most 2 reads (handshake) or 3 reads (address);
\* a read completes only once its byte count has arrived, the stream has
\* closed or the transport faults, so the call has no timeout of its own;
\* and on a stream that keeps delivering until it closes, a read that can
\* complete does, and every call returns.
C18_CallsReturn ==
    /\ [](reads <= IF decoder = "read_handshake_request" THEN 2 ELSE 3)
    /\ [][(pc \in ReadPcs /\ pc' # pc)
            => (Completable \/ last_io' = "fault")]_vars
    /\ \A n \in 0..2 :
         (pc \in ReadPcs /\ reads = n /\ Completable) ~> (reads # n)
    /\ (pc \notin {"idle", "done"}) ~> Returned

\* the third read of an address call waits for bytes the peer has not sent
C18_Witness ==
    /\ decoder = "read_socks_address"
    /\ pc = "rsa_dname" /\ reads = 2
    /\ ~Completable
    /\ arrived < Len(stream)

====
